---- MODULE Spec2Model ----
(***************************************************************************)
(* Table/slot reservation and booking-conflict subsystem of RestOh-back:   *)
(* the per-table booking ledger (utils/reservationHelpers.js), the Table   *)
(* schema validator, and the reservation handlers that drive the ledger.   *)
(*                                                                         *)
(* requests holds the addTableBooking requests that are in flight, each     *)
(* with its own copy of the Table document.                                *)
(*                                                                         *)
(* Instants are Date.getTime() values: integers counting milliseconds of   *)
(* local time; a calendar day is MsPerDay milliseconds, so                 *)
(* Date.setHours(0,0,0,0) is rounding down to a multiple of MsPerDay.      *)
(***************************************************************************)
EXTENDS Integers, Sequences, FiniteSets, TLC

VARIABLES tables, reservations, now, left, lastCall, requests

vars == <<tables, reservations, now, left, lastCall, requests>>

(***************************************************************************)
(* Bounds of the model                                                     *)
(***************************************************************************)
MaxLedgerCalls == 3

\* 1000 * 60 * 60, the divisor of getHoursDifference
MsPerHour == 3600000

MsPerMinute == MsPerHour \div 60

MsPerDay == 24 * MsPerHour

Day1 == 1 * MsPerDay
Day2 == 2 * MsPerDay

\* table numbers that have a Table document in the store
TableNums == {1, 2}

\* dates handed to the ledger: one carries a time of day, one is a midnight
LedgerDates == {Day1 + 13 * MsPerHour, Day2}

\* start slots handed to the ledger (isValidSlot accepts exactly these)
ValidSlots == 1..9

(***************************************************************************)
(* Slot catalog (utils/timeSlots.js). A label is the sequence of its       *)
(* characters.                                                             *)
(***************************************************************************)
TIME_SLOTS ==
  << [slot |-> 1, label |-> <<"1", "8", ":", "0", "0">>],
     [slot |-> 2, label |-> <<"1", "8", ":", "3", "0">>],
     [slot |-> 3, label |-> <<"1", "9", ":", "0", "0">>],
     [slot |-> 4, label |-> <<"1", "9", ":", "3", "0">>],
     [slot |-> 5, label |-> <<"2", "0", ":", "0", "0">>],
     [slot |-> 6, label |-> <<"2", "0", ":", "3", "0">>],
     [slot |-> 7, label |-> <<"2", "1", ":", "0", "0">>],
     [slot |-> 8, label |-> <<"2", "1", ":", "3", "0">>],
     [slot |-> 9, label |-> <<"2", "2", ":", "0", "0">>] >>

\* index of the catalog entry of a slot number, 0 for the null result
getSlotByNumber(slotNumber) ==
  LET hits == {i \in 1..Len(TIME_SLOTS) : TIME_SLOTS[i].slot = slotNumber}
  IN IF hits = {} THEN 0 ELSE CHOOSE i \in hits : \A j \in hits : i <= j

isValidSlot(slotNumber) ==
  \E i \in 1..Len(TIME_SLOTS) : TIME_SLOTS[i].slot = slotNumber

DigitValue ==
  [c \in {"0", "1", "2", "3", "4", "5", "6", "7", "8", "9"} |->
     CASE c = "0" -> 0 [] c = "1" -> 1 [] c = "2" -> 2 [] c = "3" -> 3
       [] c = "4" -> 4 [] c = "5" -> 5 [] c = "6" -> 6 [] c = "7" -> 7
       [] c = "8" -> 8 [] c = "9" -> 9]

\* parseInt(str, 10) of a string of decimal digits
RECURSIVE parseInt(_)
parseInt(str) ==
  IF str = <<>> THEN 0
  ELSE 10 * parseInt(SubSeq(str, 1, Len(str) - 1)) + DigitValue[str[Len(str)]]

\* label.split(':') of a label holding one colon
splitLabel(label) ==
  LET c == CHOOSE i \in 1..Len(label) : label[i] = ":"
  IN <<SubSeq(label, 1, c - 1), SubSeq(label, c + 1, Len(label))>>

NullTime == [hours |-> -1, minutes |-> -1]

getTimeFromSlot(slotNumber) ==
  LET i == getSlotByNumber(slotNumber)
  IN IF i = 0 THEN NullTime
     ELSE [hours |-> parseInt(splitLabel(TIME_SLOTS[i].label)[1]),
           minutes |-> parseInt(splitLabel(TIME_SLOTS[i].label)[2])]

(***************************************************************************)
(* Time math and lead-time policies (utils/reservationHelpers.js)          *)
(***************************************************************************)
NullDate == -1

NoMessage == ""

\* new Date(date) with setHours(hours, minutes, 0, 0)
createReservationDateTime(date, slotNumber) ==
  LET timeComponents == getTimeFromSlot(slotNumber)
  IN IF timeComponents = NullTime THEN NullDate
     ELSE (date - (date % MsPerDay))
            + timeComponents.hours * MsPerHour
            + timeComponents.minutes * MsPerMinute

\* the quotient (later - earlier) / (1000 * 60 * 60), kept as an exact
\* fraction num / den
getHoursDifference(laterDate, earlierDate) ==
  [num |-> laterDate - earlierDate, den |-> MsPerHour]

ZeroHours == [num |-> 0, den |-> MsPerHour]

\* hoursLess with the comparison written <= instead of <
hoursLessOrEqual(h, n) == h.num <= n * h.den

\* hoursUntil < n for a whole number n
hoursLess(h, n) == h.num < n * h.den

canModifyReservation(originalDate, originalSlot, at) ==
  LET originalDateTime == createReservationDateTime(originalDate, originalSlot)
      hoursUntil == getHoursDifference(originalDateTime, at)
  IN IF originalDateTime = NullDate
     THEN [canModify |-> FALSE, hoursUntil |-> ZeroHours,
           message |-> "Invalid original slot time"]
     ELSE IF hoursLess(hoursUntil, 1)
     THEN [canModify |-> FALSE, hoursUntil |-> hoursUntil,
           message |-> "Cannot modify reservation less than 1 hour before the original time"]
     ELSE [canModify |-> TRUE, hoursUntil |-> hoursUntil,
           message |-> NoMessage]

isValidNewReservationTime(newDate, newSlot, at) ==
  LET newDateTime == createReservationDateTime(newDate, newSlot)
      hoursUntil == getHoursDifference(newDateTime, at)
  IN IF newDateTime = NullDate
     THEN [isValid |-> FALSE, hoursUntil |-> ZeroHours,
           message |-> "Invalid new slot time"]
     ELSE IF hoursLess(hoursUntil, 1)
     THEN [isValid |-> FALSE, hoursUntil |-> hoursUntil,
           message |-> "New reservation time must be at least 1 hour from now"]
     ELSE [isValid |-> TRUE, hoursUntil |-> hoursUntil,
           message |-> NoMessage]

\* canCancelReservation with the one-hour threshold of canModifyReservation
canCancelReservationOneHour(reservationDate, slotNumber, at) ==
  LET reservationDateTime == createReservationDateTime(reservationDate, slotNumber)
      hoursUntil == getHoursDifference(reservationDateTime, at)
  IN IF reservationDateTime = NullDate
     THEN [canCancel |-> FALSE, hoursUntil |-> ZeroHours,
           message |-> "Invalid reservation slot time"]
     ELSE IF hoursLess(hoursUntil, 1)
     THEN [canCancel |-> FALSE, hoursUntil |-> hoursUntil,
           message |-> "Reservations can only be cancelled at least 2 hours in advance"]
     ELSE [canCancel |-> TRUE, hoursUntil |-> hoursUntil,
           message |-> NoMessage]

canCancelReservation(reservationDate, slotNumber, at) ==
  LET reservationDateTime == createReservationDateTime(reservationDate, slotNumber)
      hoursUntil == getHoursDifference(reservationDateTime, at)
  IN IF reservationDateTime = NullDate
     THEN [canCancel |-> FALSE, hoursUntil |-> ZeroHours,
           message |-> "Invalid reservation slot time"]
     ELSE IF hoursLess(hoursUntil, 2)
     THEN [canCancel |-> FALSE, hoursUntil |-> hoursUntil,
           message |-> "Reservations can only be cancelled at least 2 hours in advance"]
     ELSE [canCancel |-> TRUE, hoursUntil |-> hoursUntil,
           message |-> NoMessage]

\* an absent date or slot of an update is 0, which is falsy like undefined
NoDate == 0
NoSlot == 0

\* validateReservationUpdate that evaluates the new time even when the
\* check on the original time failed
validateReservationUpdateCollectAll(reservation, updateData, at) ==
  LET modifyCheck == canModifyReservation(reservation.date, reservation.slot, at)
      errors1 == IF ~modifyCheck.canModify
                 THEN <<modifyCheck.message>> ELSE <<>>
      newDate == IF updateData.date # NoDate
                 THEN updateData.date ELSE reservation.date
      newSlot == IF updateData.slot # NoSlot
                 THEN updateData.slot ELSE reservation.slot
      newTimeCheck == isValidNewReservationTime(newDate, newSlot, at)
      errors == IF /\ (updateData.date # NoDate \/ updateData.slot # NoSlot)
                   /\ ~newTimeCheck.isValid
                THEN Append(errors1, newTimeCheck.message) ELSE errors1
  IN [isValid |-> Len(errors) = 0, errors |-> errors]

validateReservationUpdate(reservation, updateData, at) ==
  LET modifyCheck == canModifyReservation(reservation.date, reservation.slot, at)
      errors1 == IF ~modifyCheck.canModify
                 THEN <<modifyCheck.message>> ELSE <<>>
      newDate == IF updateData.date # NoDate
                 THEN updateData.date ELSE reservation.date
      newSlot == IF updateData.slot # NoSlot
                 THEN updateData.slot ELSE reservation.slot
      newTimeCheck == isValidNewReservationTime(newDate, newSlot, at)
      errors == IF /\ (updateData.date # NoDate \/ updateData.slot # NoSlot)
                   /\ modifyCheck.canModify
                   /\ ~newTimeCheck.isValid
                THEN Append(errors1, newTimeCheck.message) ELSE errors1
  IN [isValid |-> Len(errors) = 0, errors |-> errors]

(***************************************************************************)
(* Array.prototype.sort() without a comparator: elements are ordered by    *)
(* their string conversions, compared code unit by code unit.              *)
(***************************************************************************)
RECURSIVE toString(_)
toString(n) ==
  IF n < 10 THEN <<n>> ELSE Append(toString(n \div 10), n % 10)

RECURSIVE stringLess(_, _)
stringLess(a, b) ==
  IF a = <<>> THEN b # <<>>
  ELSE IF b = <<>> THEN FALSE
  ELSE IF Head(a) # Head(b) THEN Head(a) < Head(b)
  ELSE stringLess(Tail(a), Tail(b))

RECURSIVE insertSorted(_, _)
insertSorted(x, s) ==
  IF s = <<>> THEN <<x>>
  ELSE IF stringLess(toString(x), toString(Head(s))) THEN <<x>> \o s
  ELSE <<Head(s)>> \o insertSorted(x, Tail(s))

RECURSIVE arraySort(_)
arraySort(s) ==
  IF s = <<>> THEN <<>>
  ELSE insertSorted(s[Len(s)], arraySort(SubSeq(s, 1, Len(s) - 1)))

includes(s, x) == \E i \in 1..Len(s) : s[i] = x

(***************************************************************************)
(* Table booking ledger (utils/reservationHelpers.js)                      *)
(***************************************************************************)
\* new Date(date); setHours(0, 0, 0, 0)
normalizeDate(date) == date - (date % MsPerDay)

\* a lookup that returns the first row whatever its date
getTableBookingsForDateFirstRow(tableBookings, date) ==
  IF Len(tableBookings) = 0 THEN 0 ELSE 1

\* index of the first row whose normalized date equals the normalized
\* target date; 0 stands for the undefined result of Array.find
getTableBookingsForDate(tableBookings, date) ==
  LET hits == {i \in 1..Len(tableBookings) :
                 normalizeDate(tableBookings[i].date) = normalizeDate(date)}
  IN IF hits = {} THEN 0 ELSE CHOOSE i \in hits : \A j \in hits : i <= j

\* isTableSlotAvailable looking at the start slot only
isTableSlotAvailableStartOnly(tableBookings, date, slot) ==
  LET b == getTableBookingsForDate(tableBookings, date)
  IN IF b = 0 THEN TRUE
     ELSE ~includes(tableBookings[b].bookedSlots, slot)

isTableSlotAvailable(tableBookings, date, slot) ==
  LET b == getTableBookingsForDate(tableBookings, date)
  IN IF b = 0 THEN TRUE
     ELSE /\ ~includes(tableBookings[b].bookedSlots, slot)
          /\ ~includes(tableBookings[b].bookedSlots, slot + 1)
          /\ ~includes(tableBookings[b].bookedSlots, slot + 2)

\* addTableBooking without the guard on already booked slots
addTableBookingNoGuard(tableBookings, date, slot) ==
  LET targetDate == normalizeDate(date)
      b == getTableBookingsForDate(tableBookings, targetDate)
      slots == <<slot, slot + 1, slot + 2>>
  IN IF b = 0
     THEN Append(tableBookings, [date |-> targetDate, bookedSlots |-> slots])
     ELSE [tableBookings EXCEPT ![b].bookedSlots = arraySort(@ \o slots)]

\* the in-memory tableBookings of the document after addTableBooking has
\* mutated it (before table.save())
addTableBooking(tableBookings, date, slot) ==
  LET targetDate == normalizeDate(date)
      b == getTableBookingsForDate(tableBookings, targetDate)
      slots == <<slot, slot + 1, slot + 2>>
  IN IF b = 0
     THEN Append(tableBookings, [date |-> targetDate, bookedSlots |-> slots])
     ELSE IF /\ ~includes(tableBookings[b].bookedSlots, slot)
             /\ ~includes(tableBookings[b].bookedSlots, slot + 1)
             /\ ~includes(tableBookings[b].bookedSlots, slot + 2)
          THEN [tableBookings EXCEPT
                  ![b].bookedSlots = arraySort(@ \o slots)]
          ELSE tableBookings

\* removeTableBooking that keeps a row whose bookedSlots became empty
removeTableBookingNoPrune(tableBookings, date, slot) ==
  LET b == getTableBookingsForDate(tableBookings, normalizeDate(date))
  IN IF b = 0 THEN tableBookings
     ELSE [tableBookings EXCEPT ![b].bookedSlots =
             SelectSeq(@, LAMBDA s : s # slot /\ s # slot + 1 /\ s # slot + 2)]

\* removeTableBooking that releases slot and slot+1 only
removeTableBookingTwoSlots(tableBookings, date, slot) ==
  LET targetDate == normalizeDate(date)
      b == getTableBookingsForDate(tableBookings, targetDate)
  IN IF b = 0 THEN tableBookings
     ELSE LET kept == SelectSeq(tableBookings[b].bookedSlots,
                        LAMBDA s : s # slot /\ s # slot + 1)
              filtered == [tableBookings EXCEPT ![b].bookedSlots = kept]
          IN IF Len(kept) = 0
             THEN SelectSeq(filtered, LAMBDA r : r.date # targetDate)
             ELSE filtered

\* removeTableBooking that drops the whole row of the date
removeTableBookingWholeRow(tableBookings, date, slot) ==
  SelectSeq(tableBookings, LAMBDA r : r.date # normalizeDate(date))

\* the in-memory tableBookings of the document after removeTableBooking
removeTableBooking(tableBookings, date, slot) ==
  LET targetDate == normalizeDate(date)
      b == getTableBookingsForDate(tableBookings, targetDate)
  IN IF b = 0 THEN tableBookings
     ELSE LET kept == SelectSeq(tableBookings[b].bookedSlots,
                        LAMBDA s : s # slot /\ s # slot + 1 /\ s # slot + 2)
              filtered == [tableBookings EXCEPT ![b].bookedSlots = kept]
          IN IF Len(kept) = 0
             THEN SelectSeq(filtered, LAMBDA r : r.date # targetDate)
             ELSE filtered

(***************************************************************************)
(* Table model (models/Table.js): table.save() runs the bookedSlots        *)
(* validator of tableBookingSchema and rejects when it fails               *)
(***************************************************************************)
\* the validator with the upper limit of a span's last slot
bookedSlotsValidatorWide(slots) ==
  \A i \in 1..Len(slots) : slots[i] >= 1 /\ slots[i] <= 11

bookedSlotsValidator(slots) ==
  \A i \in 1..Len(slots) : slots[i] >= 1 /\ slots[i] <= 9

saveAccepts(tableBookings) ==
  \A i \in 1..Len(tableBookings) :
     bookedSlotsValidator(tableBookings[i].bookedSlots)

\* the stored tableBookings after a save of the in-memory document
saved(stored, doc) == IF saveAccepts(doc) THEN doc ELSE stored

NoCall == [op |-> "none"]

InitTables ==
  [t \in TableNums |->
     [tableNumber |-> t, capacity |-> 4, isActive |-> TRUE,
      tableBookings |-> <<>>]]

(***************************************************************************)
(* Ledger specification: addTableBooking / removeTableBooking applied to   *)
(* stored tables, each call loading the document, mutating it and saving.  *)
(***************************************************************************)
LedgerInit ==
  /\ tables = InitTables
  /\ reservations = <<>>
  /\ now = 0
  /\ left = MaxLedgerCalls
  /\ lastCall = NoCall
  /\ requests = <<>>

\* TRUE when the previous call was addTableBooking with the same table, date
\* and slot (history of the call sequence, used to state two-call properties)
followsAdd(t, date, slot) ==
  /\ lastCall.op = "add"
  /\ lastCall.table = t /\ lastCall.date = date /\ lastCall.slot = slot

AddBooking(t, date, slot) ==
  LET pre == tables[t].tableBookings
      doc == addTableBooking(pre, date, slot)
  IN /\ left > 0
     /\ left' = left - 1
     /\ tables' = [tables EXCEPT ![t].tableBookings = saved(pre, doc)]
     /\ lastCall' = [op |-> "add", table |-> t, date |-> date, slot |-> slot,
                     pre |-> pre, doc |-> doc, threw |-> ~saveAccepts(doc),
                     afterAdd |-> followsAdd(t, date, slot),
                     addPre |-> IF followsAdd(t, date, slot)
                                THEN lastCall.pre ELSE <<>>]
     /\ UNCHANGED <<reservations, now, requests>>

RemoveBooking(t, date, slot) ==
  LET pre == tables[t].tableBookings
      doc == removeTableBooking(pre, date, slot)
  IN /\ left > 0
     /\ left' = left - 1
     /\ tables' = [tables EXCEPT ![t].tableBookings = saved(pre, doc)]
     /\ lastCall' = [op |-> "remove", table |-> t, date |-> date,
                     slot |-> slot, pre |-> pre, doc |-> doc,
                     threw |-> ~saveAccepts(doc),
                     afterAdd |-> followsAdd(t, date, slot),
                     addPre |-> IF followsAdd(t, date, slot)
                                THEN lastCall.pre ELSE <<>>]
     /\ UNCHANGED <<reservations, now, requests>>

LedgerNext ==
  \/ \E t \in TableNums, d \in LedgerDates, s \in ValidSlots :
       AddBooking(t, d, s)
  \/ \E t \in TableNums, d \in LedgerDates, s \in ValidSlots :
       RemoveBooking(t, d, s)

SpecLedger == LedgerInit /\ [][LedgerNext]_vars

(***************************************************************************)
(* Availability queries (utils/reservationHelpers.js) over the stored      *)
(* tables. Table.find returns the matching documents; the set of their     *)
(* numbers is what findAvailableTables keeps of them.                      *)
(***************************************************************************)
\* the numbers of a set in ascending order
RECURSIVE ascending(_)
ascending(S) ==
  IF S = {} THEN <<>>
  ELSE LET m == CHOOSE x \in S : \A y \in S : x <= y
       IN <<m>> \o ascending(S \ {m})

\* Array(12).fill().map((_, index) => index + 1)
allTables == [index \in 1..12 |-> index]

\* Table.find({ isActive: true, capacity: { $gte: 1 } })
findActiveTables(tbls) ==
  {t \in DOMAIN tbls : tbls[t].isActive /\ tbls[t].capacity >= 1}

findAvailableTables(tbls, date, slot, requiredCapacity) ==
  LET availableTables ==
        {tbls[t].tableNumber : t \in
           {u \in findActiveTables(tbls) :
              isTableSlotAvailable(tbls[u].tableBookings, date, slot)}}
      occupiedTables ==
        SelectSeq(allTables, LAMBDA x : x \notin availableTables)
  IN [availableTables |-> availableTables, occupiedTables |-> occupiedTables]

\* getTableAvailability that reports the inactive tables too
getTableAvailabilityAllTables(tbls, date) ==
  LET found == ascending(DOMAIN tbls)
  IN [i \in 1..Len(found) |->
        LET table == tbls[found[i]]
            booking == getTableBookingsForDate(table.tableBookings, date)
            bookedSlots == IF booking # 0
                           THEN table.tableBookings[booking].bookedSlots
                           ELSE <<>>
            availableSlots ==
              SelectSeq(<<1, 2, 3, 4, 5, 6, 7, 8, 9>>,
                        LAMBDA slot :
                          isTableSlotAvailable(table.tableBookings, date, slot))
        IN [tableNumber |-> table.tableNumber, capacity |-> table.capacity,
            bookedSlots |-> bookedSlots, availableSlots |-> availableSlots,
            isFullyBooked |-> Len(availableSlots) = 0]]

\* Table.find({ isActive: true }).sort({ tableNumber: 1 }), mapped to the
\* availability entries
getTableAvailability(tbls, date) ==
  LET found == ascending({t \in DOMAIN tbls : tbls[t].isActive})
  IN [i \in 1..Len(found) |->
        LET table == tbls[found[i]]
            booking == getTableBookingsForDate(table.tableBookings, date)
            bookedSlots == IF booking # 0
                           THEN table.tableBookings[booking].bookedSlots
                           ELSE <<>>
            availableSlots ==
              SelectSeq(<<1, 2, 3, 4, 5, 6, 7, 8, 9>>,
                        LAMBDA slot :
                          isTableSlotAvailable(table.tableBookings, date, slot))
        IN [tableNumber |-> table.tableNumber, capacity |-> table.capacity,
            bookedSlots |-> bookedSlots, availableSlots |-> availableSlots,
            isFullyBooked |-> Len(availableSlots) = 0]]

MaxScanCalls == 3

\* the table numbers that have a document: the twelve of the dining room,
\* or a few that reach up to the schema's maximum of 22
ScanTableSets == {1..12, {3, 12, 13, 22}}

\* tables that may have been deactivated
ScanInactive == {3, 12, 13}

\* tables that receive bookings before the queries
ScanBooked == {3, 13}

ScanDates == {Day1 + 13 * MsPerHour, Day2}

\* start slots booked: the spans of 2 and 7 together cover 2..4 and 7..9
ScanAddSlots == {2, 5, 7}

ScanSlots == {5, 8}

ScanCapacities == {1, 6}

ScanInit ==
  /\ \E S \in ScanTableSets, inactive \in SUBSET ScanInactive :
       tables = [t \in S |->
                   [tableNumber |-> t, capacity |-> 4,
                    isActive |-> t \notin inactive, tableBookings |-> <<>>]]
  /\ reservations = <<>>
  /\ now = 0
  /\ left = MaxScanCalls
  /\ lastCall = NoCall
  /\ requests = <<>>

FindAvailable(date, slot, requiredCapacity) ==
  /\ left > 0
  /\ left' = left - 1
  /\ lastCall' = [op |-> "scan", date |-> date, slot |-> slot,
                  result |-> findAvailableTables(tables, date, slot,
                                                 requiredCapacity)]
  /\ UNCHANGED <<tables, reservations, now, requests>>

DailyAvailability(date) ==
  /\ left > 0
  /\ left' = left - 1
  /\ lastCall' = [op |-> "report", date |-> date,
                  result |-> getTableAvailability(tables, date)]
  /\ UNCHANGED <<tables, reservations, now, requests>>

ScanNext ==
  \/ \E t \in ScanBooked \cap DOMAIN tables, d \in ScanDates,
        s \in ScanAddSlots : AddBooking(t, d, s)
  \/ \E d \in ScanDates, s \in ScanSlots, c \in ScanCapacities :
       FindAvailable(d, s, c)
  \/ \E d \in ScanDates : DailyAvailability(d)

SpecScan == ScanInit /\ [][ScanNext]_vars

(***************************************************************************)
(* Reservation handlers (reservation controller). A handler runs as one    *)
(* step; lastCall.log lists, in order, the writes the handler performed.   *)
(***************************************************************************)
MaxCalls == 4

MaxReservations == 2

\* callers of the user routes in the audited calls; "u2" owns nothing
Users == {"u1", "u2"}

\* users that submit reservations
Creators == {"u1"}

\* request dates: one with a time of day, one at midnight
ReqDates == {Day1 + 18 * MsPerHour, Day2}

\* request start slots: 1 and 2 overlap, 4 is clear of 1, the span of 8
\* runs past slot 9
ReqSlots == {1, 2, 4, 8}

\* start slots outside the catalog
BadSlots == {10}

\* request table lists; no Table document has number 3
TableLists == {<<>>, <<1>>, <<1, 2>>, <<3>>}

\* the instants at which requests arrive
Clock == {Day1 + 17 * MsPerHour + 30 * MsPerMinute,
          Day1 + 21 * MsPerHour}

NoStatus == ""

validStatuses == {"confirmed", "seated", "completed", "cancelled", "no-show"}

\* status values sent to the admin route: none, "pending", which is not in
\* validStatuses, and the two of validStatuses that open and close the user
\* routes
AdminStatuses == {NoStatus, "pending", "confirmed", "cancelled"}

\* Reservation schema: status defaults to pending
DefaultStatus == "pending"

\* Joi.date().min('now') of validateReservation
validateReservation(body, at) == body.date >= at

\* Table.findOne({ tableNumber }) finds a document
tableExists(tbls, n) == n \in DOMAIN tbls

\* a booking loop that undoes the bookings of the earlier tables when the
\* save of a later table is rejected
RECURSIVE bookTablesUndo(_, _, _, _, _, _)
bookTablesUndo(tbls, list, date, slot, log, down) ==
  IF list = <<>> THEN [tables |-> tbls, log |-> log, threw |-> FALSE]
  ELSE LET n == Head(list)
       IN IF ~tableExists(tbls, n)
          THEN bookTablesUndo(tbls, Tail(list), date, slot,
                              Append(log, <<"missing", n>>), down)
          ELSE LET doc == addTableBooking(tbls[n].tableBookings, date, slot)
               IN IF saveAccepts(doc) /\ n \notin down
                  THEN LET rest ==
                             bookTablesUndo(
                               [tbls EXCEPT ![n].tableBookings = doc],
                               Tail(list), date, slot,
                               Append(log, <<"add", n>>), down)
                       IN IF rest.threw
                          THEN [rest EXCEPT !.tables = tbls]
                          ELSE rest
                  ELSE [tables |-> tbls, log |-> Append(log, <<"throw", n>>),
                        threw |-> TRUE]

\* createReservation, lines 87-95: add the booking on every listed table;
\* a rejected save leaves the loop (the caller catches and logs it).
\* table.save() rejects when the validator fails, and for the tables in
\* `down`, whose write the storage refuses
RECURSIVE bookTables(_, _, _, _, _, _)
bookTables(tbls, list, date, slot, log, down) ==
  IF list = <<>> THEN [tables |-> tbls, log |-> log, threw |-> FALSE]
  ELSE LET n == Head(list)
       IN IF ~tableExists(tbls, n)
          THEN bookTables(tbls, Tail(list), date, slot,
                          Append(log, <<"missing", n>>), down)
          ELSE LET doc == addTableBooking(tbls[n].tableBookings, date, slot)
               IN IF saveAccepts(doc) /\ n \notin down
                  THEN bookTables([tbls EXCEPT ![n].tableBookings = doc],
                                  Tail(list), date, slot,
                                  Append(log, <<"add", n>>), down)
                  ELSE [tables |-> tbls, log |-> Append(log, <<"throw", n>>),
                        threw |-> TRUE]

\* a release loop that stops after the first listed table
releaseTablesFirstOnly(tbls, list, date, slot, log) ==
  IF list = <<>> THEN [tables |-> tbls, log |-> log, threw |-> FALSE]
  ELSE LET n == Head(list)
       IN IF ~tableExists(tbls, n)
          THEN [tables |-> tbls, log |-> Append(log, <<"missing", n>>),
                threw |-> FALSE]
          ELSE [tables |->
                  [tbls EXCEPT ![n].tableBookings =
                     saved(@, removeTableBooking(@, date, slot))],
                log |-> Append(log, <<"remove", n>>), threw |-> FALSE]

\* the release loops of cancelUserReservation (502-510) and
\* updateAdminReservation (259-265, 295-301): remove the booking on every
\* listed table that exists
RECURSIVE releaseTables(_, _, _, _, _)
releaseTables(tbls, list, date, slot, log) ==
  IF list = <<>> THEN [tables |-> tbls, log |-> log, threw |-> FALSE]
  ELSE LET n == Head(list)
       IN IF ~tableExists(tbls, n)
          THEN releaseTables(tbls, Tail(list), date, slot,
                             Append(log, <<"missing", n>>))
          ELSE LET doc == removeTableBooking(tbls[n].tableBookings, date, slot)
               IN IF saveAccepts(doc)
                  THEN releaseTables([tbls EXCEPT ![n].tableBookings = doc],
                                     Tail(list), date, slot,
                                     Append(log, <<"remove", n>>))
                  ELSE [tables |-> tbls, log |-> Append(log, <<"throw", n>>),
                        threw |-> TRUE]

\* updateAdminReservation, lines 270-281: add the booking on every new
\* table; a table that does not exist ends the request with 400
RECURSIVE assignTables(_, _, _, _, _)
assignTables(tbls, list, date, slot, log) ==
  IF list = <<>>
  THEN [tables |-> tbls, log |-> log, threw |-> FALSE, notFound |-> FALSE]
  ELSE LET n == Head(list)
       IN IF ~tableExists(tbls, n)
          THEN [tables |-> tbls, log |-> Append(log, <<"missing", n>>),
                threw |-> FALSE, notFound |-> TRUE]
          ELSE LET doc == addTableBooking(tbls[n].tableBookings, date, slot)
               IN IF saveAccepts(doc)
                  THEN assignTables([tbls EXCEPT ![n].tableBookings = doc],
                                    Tail(list), date, slot,
                                    Append(log, <<"add", n>>))
                  ELSE [tables |-> tbls, log |-> Append(log, <<"throw", n>>),
                        threw |-> TRUE, notFound |-> FALSE]

\* a move loop that adds the new booking before it removes the old one
RECURSIVE moveTablesAddFirst(_, _, _, _, _, _, _)
moveTablesAddFirst(tbls, list, oldDate, oldSlot, newDate, newSlot, log) ==
  IF list = <<>> THEN [tables |-> tbls, log |-> log, threw |-> FALSE]
  ELSE LET n == Head(list)
       IN IF ~tableExists(tbls, n)
          THEN moveTablesAddFirst(tbls, Tail(list), oldDate, oldSlot,
                                  newDate, newSlot, log)
          ELSE LET doc1 == addTableBooking(tbls[n].tableBookings,
                                           newDate, newSlot)
                   doc2 == removeTableBooking(doc1, oldDate, oldSlot)
               IN IF ~saveAccepts(doc1)
                  THEN [tables |-> tbls, log |-> Append(log, <<"throw", n>>),
                        threw |-> TRUE]
                  ELSE moveTablesAddFirst(
                         [tbls EXCEPT ![n].tableBookings = doc2],
                         Tail(list), oldDate, oldSlot, newDate, newSlot,
                         log \o << <<"add", n>>, <<"remove", n>> >>)

\* updateUserReservation, lines 408-419: on every assigned table that
\* exists, remove the old booking, save, add the new booking, save
RECURSIVE moveTables(_, _, _, _, _, _, _)
moveTables(tbls, list, oldDate, oldSlot, newDate, newSlot, log) ==
  IF list = <<>> THEN [tables |-> tbls, log |-> log, threw |-> FALSE]
  ELSE LET n == Head(list)
       IN IF ~tableExists(tbls, n)
          THEN moveTables(tbls, Tail(list), oldDate, oldSlot, newDate,
                          newSlot, log)
          ELSE LET doc1 == removeTableBooking(tbls[n].tableBookings,
                                              oldDate, oldSlot)
                   doc2 == addTableBooking(doc1, newDate, newSlot)
               IN IF ~saveAccepts(doc1)
                  THEN [tables |-> tbls, log |-> Append(log, <<"throw", n>>),
                        threw |-> TRUE]
                  ELSE IF ~saveAccepts(doc2)
                  THEN [tables |-> [tbls EXCEPT ![n].tableBookings = doc1],
                        log |-> log \o << <<"remove", n>>, <<"throw", n>> >>,
                        threw |-> TRUE]
                  ELSE moveTables([tbls EXCEPT ![n].tableBookings = doc2],
                                  Tail(list), oldDate, oldSlot, newDate,
                                  newSlot,
                                  log \o << <<"remove", n>>, <<"add", n>> >>)

Init ==
  /\ tables = InitTables
  /\ reservations = <<>>
  /\ now \in Clock
  /\ left = MaxCalls
  /\ lastCall = NoCall
  /\ requests = <<>>


\* a request is rejected before it writes anything
Rejected(op, id, code) ==
  /\ lastCall' = [op |-> op, id |-> id, code |-> code, log |-> <<>>]
  /\ UNCHANGED <<tables, reservations>>

createReservation(user, date, slot, tableNumber, down) ==
  /\ left > 0
  /\ Len(reservations) < MaxReservations
  /\ left' = left - 1
  /\ UNCHANGED <<now, requests>>
  /\ IF ~validateReservation([date |-> date], now)
     THEN Rejected("create", 0, 400)
     ELSE LET id == Len(reservations) + 1
              r == bookTables(tables, tableNumber, date, slot,
                              << <<"reservation", id>> >>, down)
          IN /\ reservations' =
                  Append(reservations,
                         [userId |-> user, date |-> date, slot |-> slot,
                          status |-> DefaultStatus,
                          tableNumber |-> tableNumber])
             /\ tables' = r.tables
             /\ lastCall' = [op |-> "create", id |-> id, code |-> 201,
                             log |-> r.log]

\* a createReservation during which the storage accepts every valid write
CreateReservation(user, date, slot, tableNumber) ==
  createReservation(user, date, slot, tableNumber, {})

\* what a route has read of its request: nothing is recorded unless the
\* call is audited; on the user routes the caller alone before the body is
\* read
NoRequest == [user |-> ""]

callerOnly(user, audit) == IF audit THEN [user |-> user] ELSE NoRequest

callerAndBody(user, date, slot, audit) ==
  IF audit THEN [user |-> user, date |-> date, slot |-> slot] ELSE NoRequest

\* the (date, slot) of the reservation as the handler loaded it
loaded(reservation, audit) ==
  IF audit THEN [date |-> reservation.date, slot |-> reservation.slot]
  ELSE NoRequest

\* a user request is rejected before it writes anything
RejectedRequest(op, id, code, req) ==
  /\ lastCall' = [op |-> op, id |-> id, code |-> code, log |-> <<>>,
                  req |-> req]
  /\ UNCHANGED <<tables, reservations>>

\* the body of an admin update
adminBody(status, tableNumber, audit) ==
  IF audit THEN [status |-> status, tableNumber |-> tableNumber]
  ELSE NoRequest

\* the body's tableNumber is <<>> when absent and <<list>> when present
updateAdminReservation(id, audit) ==
  /\ left > 0
  /\ left' = left - 1
  /\ UNCHANGED <<now, requests>>
  /\ \E status \in AdminStatuses :
     IF status # NoStatus /\ status \notin validStatuses
     THEN RejectedRequest("updateAdmin", id, 400,
                          adminBody(status, <<>>, audit))
     ELSE IF id \notin 1..Len(reservations)
     THEN RejectedRequest("updateAdmin", id, 404,
                          adminBody(status, <<>>, audit))
     ELSE \E tableNumber \in {<<>>} \cup {<<l>> : l \in TableLists} :
       LET original == reservations[id]
           changes == /\ tableNumber # <<>>
                      /\ tableNumber[1] # original.tableNumber
           r1 == IF changes
                 THEN releaseTables(tables, original.tableNumber,
                                    original.date, original.slot, <<>>)
                 ELSE [tables |-> tables, log |-> <<>>, threw |-> FALSE]
           r2 == IF changes /\ ~r1.threw
                 THEN assignTables(r1.tables, tableNumber[1], original.date,
                                   original.slot, r1.log)
                 ELSE [tables |-> r1.tables, log |-> r1.log,
                       threw |-> r1.threw, notFound |-> FALSE]
           cancels == /\ status = "cancelled"
                      /\ original.status # "cancelled"
                      /\ Len(original.tableNumber) > 0
           r3 == IF cancels
                 THEN releaseTables(r2.tables, original.tableNumber,
                                    original.date, original.slot, r2.log)
                 ELSE [tables |-> r2.tables, log |-> r2.log, threw |-> FALSE]
       IN IF r2.notFound \/ r2.threw
          THEN /\ tables' = r2.tables
               /\ UNCHANGED reservations
               /\ lastCall' = [op |-> "updateAdmin", id |-> id,
                               code |-> IF r2.notFound THEN 400 ELSE 500,
                               log |-> r2.log,
                               req |-> adminBody(status, tableNumber, audit)]
          ELSE /\ tables' = r3.tables
               /\ reservations' =
                    [reservations EXCEPT
                       ![id].status = IF status # NoStatus THEN status ELSE @,
                       ![id].tableNumber =
                          IF tableNumber # <<>> THEN tableNumber[1] ELSE @]
               /\ lastCall' = [op |-> "updateAdmin", id |-> id, code |-> 200,
                               log |-> Append(r3.log, <<"reservation", id>>),
                               req |-> adminBody(status, tableNumber, audit)]

UpdateAdminReservation(id) == updateAdminReservation(id, FALSE)

\* validateReservationUpdate that checks the new time only
validateReservationUpdateNewTimeOnly(reservation, updateData, at) ==
  LET newDate == IF updateData.date # NoDate
                 THEN updateData.date ELSE reservation.date
      newSlot == IF updateData.slot # NoSlot
                 THEN updateData.slot ELSE reservation.slot
      newTimeCheck == isValidNewReservationTime(newDate, newSlot, at)
      errors == IF /\ (updateData.date # NoDate \/ updateData.slot # NoSlot)
                   /\ ~newTimeCheck.isValid
                THEN <<newTimeCheck.message>> ELSE <<>>
  IN [isValid |-> Len(errors) = 0, errors |-> errors]

\* the time check of updateUserReservation, line 395
updateTimeCheck(reservation, updateData, at) ==
  validateReservationUpdate(reservation, updateData, at)

\* cancelUserReservation's time check with the threshold of the update path
cancelTimeCheckOneHour(reservation, at) ==
  canCancelReservationOneHour(reservation.date, reservation.slot, at)

\* the time check of cancelUserReservation, line 487
cancelTimeCheck(reservation, at) ==
  canCancelReservation(reservation.date, reservation.slot, at)

updateUserReservation(user, id, audit) ==
  /\ left > 0
  /\ left' = left - 1
  /\ UNCHANGED <<now, requests>>
  /\ IF id \notin 1..Len(reservations)
     THEN RejectedRequest("updateUser", id, 404, callerOnly(user, audit))
     ELSE IF reservations[id].userId # user
     THEN RejectedRequest("updateUser", id, 403, callerOnly(user, audit))
     ELSE IF reservations[id].status # "confirmed"
     THEN RejectedRequest("updateUser", id, 400, callerOnly(user, audit))
     ELSE \E date \in {NoDate} \cup ReqDates,
             slot \in {NoSlot} \cup BadSlots \cup ReqSlots :
       IF slot # NoSlot /\ ~isValidSlot(slot)
       THEN RejectedRequest("updateUser", id, 400,
                            callerAndBody(user, date, slot, audit))
       ELSE IF ~updateTimeCheck(reservations[id],
                                [date |-> date, slot |-> slot], now).isValid
       THEN RejectedRequest("updateUser", id, 400,
                            callerAndBody(user, date, slot, audit))
       ELSE
         LET reservation == reservations[id]
             newDate == IF date # NoDate THEN date ELSE reservation.date
             newSlot == IF slot # NoSlot THEN slot ELSE reservation.slot
             r == IF (date # NoDate \/ slot # NoSlot)
                     /\ Len(reservation.tableNumber) > 0
                  THEN moveTables(tables, reservation.tableNumber,
                                  reservation.date, reservation.slot,
                                  newDate, newSlot, <<>>)
                  ELSE [tables |-> tables, log |-> <<>>, threw |-> FALSE]
         IN IF r.threw
            THEN /\ tables' = r.tables
                 /\ UNCHANGED reservations
                 /\ lastCall' = [op |-> "updateUser", id |-> id,
                                 code |-> 500, log |-> r.log,
                                 req |-> callerAndBody(user, date, slot, audit),
                                 was |-> loaded(reservation, audit)]
            ELSE /\ tables' = r.tables
                 /\ reservations' =
                      [reservations EXCEPT ![id].date = newDate,
                                           ![id].slot = newSlot]
                 /\ lastCall' = [op |-> "updateUser", id |-> id,
                                 code |-> 200,
                                 log |-> Append(r.log, <<"reservation", id>>),
                                 req |-> callerAndBody(user, date, slot, audit),
                                 was |-> loaded(reservation, audit)]

cancelUserReservation(user, id, audit) ==
  /\ left > 0
  /\ left' = left - 1
  /\ UNCHANGED <<now, requests>>
  /\ IF id \notin 1..Len(reservations)
     THEN RejectedRequest("cancel", id, 404, callerOnly(user, audit))
     ELSE IF reservations[id].userId # user
     THEN RejectedRequest("cancel", id, 403, callerOnly(user, audit))
     ELSE IF reservations[id].status \in {"cancelled", "completed"}
     THEN RejectedRequest("cancel", id, 400, callerOnly(user, audit))
     ELSE IF reservations[id].status # "confirmed"
     THEN RejectedRequest("cancel", id, 400, callerOnly(user, audit))
     ELSE IF ~cancelTimeCheck(reservations[id], now).canCancel
     THEN RejectedRequest("cancel", id, 400, callerOnly(user, audit))
     ELSE
       LET reservation == reservations[id]
           r == releaseTables(tables, reservation.tableNumber,
                              reservation.date, reservation.slot,
                              << <<"status", id>> >>)
       IN /\ reservations' = [reservations EXCEPT ![id].status = "cancelled"]
          /\ tables' = r.tables
          /\ lastCall' = [op |-> "cancel", id |-> id, code |-> 200,
                          log |-> r.log, req |-> callerOnly(user, audit)]

UpdateUserReservation(user, id) == updateUserReservation(user, id, FALSE)

CancelUserReservation(user, id) == cancelUserReservation(user, id, FALSE)

\* requests arrive at later and later instants
Tick ==
  /\ \E t \in Clock : t > now /\ now' = t
  /\ UNCHANGED <<tables, reservations, left, lastCall, requests>>

Next ==
  \/ \E u \in Creators, d \in ReqDates, s \in ReqSlots, tn \in TableLists :
       CreateReservation(u, d, s, tn)
  \/ \E id \in 0..MaxReservations : UpdateAdminReservation(id)
  \/ \E u \in Creators, id \in 0..MaxReservations :
       UpdateUserReservation(u, id)
  \/ \E u \in Creators, id \in 0..MaxReservations :
       CancelUserReservation(u, id)
  \/ Tick

Spec == Init /\ [][Next]_vars

(***************************************************************************)
(* Audited calls: the same handlers, with the user routes recording the    *)
(* request they were given, over a shorter sequence of calls.              *)
(***************************************************************************)
MaxAuditedCalls == 3

CallsInit ==
  /\ tables = InitTables
  /\ reservations = <<>>
  /\ now \in Clock
  /\ left = MaxAuditedCalls
  /\ lastCall = NoCall
  /\ requests = <<>>

UpdateAdminRequest(id) == updateAdminReservation(id, TRUE)

UpdateUserRequest(user, id) == updateUserReservation(user, id, TRUE)

CancelUserRequest(user, id) == cancelUserReservation(user, id, TRUE)

CallsNext ==
  \/ \E u \in Creators, d \in ReqDates, s \in ReqSlots, tn \in TableLists :
       CreateReservation(u, d, s, tn)
  \/ \E id \in 0..MaxReservations : UpdateAdminRequest(id)
  \/ \E u \in Users, id \in 0..MaxReservations : UpdateUserRequest(u, id)
  \/ \E u \in Users, id \in 0..MaxReservations : CancelUserRequest(u, id)
  \/ Tick

SpecCalls == CallsInit /\ [][CallsNext]_vars

(***************************************************************************)
(* Storage failures: createReservation while the storage refuses the       *)
(* writes of some Table documents (table.save() rejects for them).         *)
(***************************************************************************)
MaxStorageCalls == 3

StorageInit ==
  /\ tables = InitTables
  /\ reservations = <<>>
  /\ now \in Clock
  /\ left = MaxStorageCalls
  /\ lastCall = NoCall
  /\ requests = <<>>

CreateReservationStorage(user, date, slot, tableNumber, down) ==
  createReservation(user, date, slot, tableNumber, down)

StorageNext ==
  \/ \E u \in Creators, d \in ReqDates, s \in ReqSlots, tn \in TableLists,
        down \in SUBSET TableNums :
       CreateReservationStorage(u, d, s, tn, down)
  \/ Tick

SpecStorage == StorageInit /\ [][StorageNext]_vars

(***************************************************************************)
(* Concurrent bookings: each request loads the Table document              *)
(* (Table.findOne), addTableBooking mutates the request's own copy, and    *)
(* table.save() writes it back; steps of different requests interleave.    *)
(* The save compares nothing with the stored document: it writes either    *)
(* the whole tableBookings of the copy, or only what the copy changed (the *)
(* pushed row, or the bookedSlots of the changed row).                     *)
(***************************************************************************)
RaceIds == {1, 2}

\* one step per request to load, to mutate and to save
RaceSteps == 3 * Cardinality(RaceIds)

RaceTables == {1}

\* two request dates of one calendar day, and one of the day before
RaceDates == {Day2, Day2 + 13 * MsPerHour, Day1 + 13 * MsPerHour}

\* the spans of 1 and 2 overlap, the span of 4 is clear of the span of 1
RaceSlots == {1, 2, 4}

SaveModes == {"replace", "delta"}

\* the stored tableBookings when the requests start: none, or the row an
\* earlier booking of slot 7 left
RaceStored == {<<>>, <<[date |-> Day2, bookedSlots |-> <<7, 8, 9>>]>>}

newRequest(t, date, slot) ==
  [table |-> t, date |-> date, slot |-> slot, pc |-> "load",
   base |-> <<>>, doc |-> <<>>, sawFree |-> FALSE,
   loadedAt |-> 0, savedAt |-> 0]

\* a save that refuses a copy loaded before the stored document changed
saveWithVersionCheck(stored, base, doc, mode) ==
  IF ~saveAccepts(doc) \/ stored # base THEN stored ELSE doc

\* the stored tableBookings after table.save() of a copy that was loaded as
\* base and is now doc
saveNoCheck(stored, base, doc, mode) ==
  IF ~saveAccepts(doc) THEN stored
  ELSE IF mode = "replace" THEN doc
  ELSE IF doc = base THEN stored
  ELSE IF Len(doc) > Len(base) THEN Append(stored, doc[Len(doc)])
  ELSE LET b == CHOOSE k \in 1..Len(doc) : doc[k] # base[k]
       IN IF b <= Len(stored)
          THEN [stored EXCEPT ![b].bookedSlots = doc[b].bookedSlots]
          ELSE stored

RaceInit ==
  /\ \E tb \in RaceStored :
       tables = [InitTables EXCEPT ![1].tableBookings = tb]
  /\ reservations = <<>>
  /\ now = 0
  /\ left = RaceSteps
  /\ lastCall = NoCall
  /\ requests \in [RaceIds ->
       {newRequest(t, d, s) : t \in RaceTables, d \in RaceDates,
                              s \in RaceSlots}]

\* Table.findOne({ tableNumber }): the request gets its own copy
LoadTable(i) ==
  /\ requests[i].pc = "load"
  /\ requests' = [requests EXCEPT
                    ![i].pc = "mutate",
                    ![i].base = tables[requests[i].table].tableBookings,
                    ![i].doc = tables[requests[i].table].tableBookings,
                    ![i].loadedAt = RaceSteps - left + 1]
  /\ left' = left - 1
  /\ UNCHANGED <<tables, reservations, now, lastCall>>

\* addTableBooking up to table.save(): the copy is mutated when the span is
\* free in it
MutateCopy(i) ==
  /\ requests[i].pc = "mutate"
  /\ LET doc == addTableBooking(requests[i].doc, requests[i].date,
                                requests[i].slot)
     IN requests' = [requests EXCEPT
                       ![i].pc = "save",
                       ![i].doc = doc,
                       ![i].sawFree = (doc # requests[i].doc)]
  /\ left' = left - 1
  /\ UNCHANGED <<tables, reservations, now, lastCall>>

SaveTable(i) ==
  /\ requests[i].pc = "save"
  /\ \E mode \in SaveModes :
       tables' = [tables EXCEPT ![requests[i].table].tableBookings =
                    saveNoCheck(@, requests[i].base, requests[i].doc, mode)]
  /\ requests' = [requests EXCEPT ![i].pc = "done",
                                  ![i].savedAt = RaceSteps - left + 1]
  /\ left' = left - 1
  /\ UNCHANGED <<reservations, now, lastCall>>

RaceNext ==
  \/ \E i \in RaceIds : LoadTable(i)
  \/ \E i \in RaceIds : MutateCopy(i)
  \/ \E i \in RaceIds : SaveTable(i)

SpecRace == RaceInit /\ [][RaceNext]_vars

(***************************************************************************)
(* Time specification: the lead-time policies applied to dates, slot       *)
(* numbers and instants of a bounded set.                                  *)
(***************************************************************************)
TimeDates == {Day1, Day1 + 13 * MsPerHour, Day2}

\* slot numbers handed to the policies: 0 and 10 are not in the catalog
TimeSlots == 0..10

TimeNows ==
  { Day1 + 17 * MsPerHour,
    Day1 + 17 * MsPerHour + 30 * MsPerMinute,
    Day1 + 19 * MsPerHour,
    Day1 + 19 * MsPerHour + 1,
    Day1 + 19 * MsPerHour + 30 * MsPerMinute,
    Day1 + 23 * MsPerHour,
    Day2 + 17 * MsPerHour }

TimeInit ==
  /\ tables = InitTables
  /\ reservations = <<>>
  /\ now \in TimeNows
  /\ left = 0
  /\ lastCall = NoCall
  /\ requests = <<>>

CheckModify(date, slot) ==
  /\ lastCall' = [op |-> "canModify", date |-> date, slot |-> slot,
                  result |-> canModifyReservation(date, slot, now)]
  /\ UNCHANGED <<tables, reservations, now, left, requests>>

CheckNewTime(date, slot) ==
  /\ lastCall' = [op |-> "isValidNew", date |-> date, slot |-> slot,
                  result |-> isValidNewReservationTime(date, slot, now)]
  /\ UNCHANGED <<tables, reservations, now, left, requests>>

\* (date, slot) of the reservations handed to validateReservationUpdate;
\* slot 0 is not in the catalog
UpdateDates == {Day1, Day2}
UpdateSlots == {0, 1, 3, 5}

\* the slots an update proposes; 10 is not in the catalog
NewSlots == {1, 2, 5, 10}

CheckCancel(date, slot) ==
  /\ lastCall' = [op |-> "canCancel", date |-> date, slot |-> slot,
                  result |-> canCancelReservation(date, slot, now)]
  /\ UNCHANGED <<tables, reservations, now, left, requests>>

\* the reservation holds (date, slot); the update carries newDate and
\* newSlot, each absent (NoDate, NoSlot) or given
ValidateUpdate(date, slot, newDate, newSlot) ==
  /\ lastCall' = [op |-> "validateUpdate", date |-> date, slot |-> slot,
                  newDate |-> newDate, newSlot |-> newSlot,
                  result |-> validateReservationUpdate(
                               [date |-> date, slot |-> slot],
                               [date |-> newDate, slot |-> newSlot], now)]
  /\ UNCHANGED <<tables, reservations, now, left, requests>>

TimeNext ==
  \/ \E d \in TimeDates, s \in TimeSlots : CheckModify(d, s)
  \/ \E d \in TimeDates, s \in TimeSlots : CheckNewTime(d, s)
  \/ \E d \in TimeDates, s \in TimeSlots : CheckCancel(d, s)
  \/ \E d \in UpdateDates, s \in UpdateSlots,
        nd \in {NoDate} \cup UpdateDates, ns \in {NoSlot} \cup NewSlots :
       ValidateUpdate(d, s, nd, ns)

SpecTime == TimeInit /\ [][TimeNext]_vars

(***************************************************************************)
(* Properties of the ledger                                                *)
(***************************************************************************)
Range(s) == {s[i] : i \in 1..Len(s)}

Span(slot) == {slot, slot + 1, slot + 2}

\* bookedSlots of the row for a date, <<>> when the date has no row
RowSlots(tableBookings, date) ==
  LET b == getTableBookingsForDate(tableBookings, date)
  IN IF b = 0 THEN <<>> ELSE tableBookings[b].bookedSlots

HasRow(tableBookings, date) == getTableBookingsForDate(tableBookings, date) # 0

OtherRows(tableBookings, date) ==
  SelectSeq(tableBookings,
            LAMBDA r : normalizeDate(r.date) # normalizeDate(date))

\* C4: every element of every stored bookedSlots is an integer in 1..9
\* after any sequence of addBooking / removeBooking calls with start slots
\* in 1..9
C4_BookedSlotsInRange ==
  \A t \in TableNums :
    \A i \in 1..Len(tables[t].tableBookings) :
      \A j \in 1..Len(tables[t].tableBookings[i].bookedSlots) :
        tables[t].tableBookings[i].bookedSlots[j] \in 1..9

\* an add whose span runs past slot 9 was attempted on a date that already
\* holds bookings
C4_Witness ==
  /\ lastCall.op = "add"
  /\ lastCall.slot = 8
  /\ HasRow(lastCall.pre, lastCall.date)
  /\ Range(RowSlots(lastCall.doc, lastCall.date)) = {1, 2, 3, 8, 9, 10}

\* C5: a table has at most one row per calendar date and no row with empty
\* bookedSlots; a row appears only through an add on a date without a row
\* and disappears exactly when a remove empties it
C5_OneRowPerDateNoEmptyRow ==
  /\ \A t \in TableNums :
       LET tb == tables[t].tableBookings
       IN /\ \A i, j \in 1..Len(tb) :
                i # j => normalizeDate(tb[i].date) # normalizeDate(tb[j].date)
          /\ \A i \in 1..Len(tb) : Len(tb[i].bookedSlots) > 0
  /\ lastCall.op \in {"add", "remove"} =>
       LET tb == tables[lastCall.table].tableBookings
       IN /\ Len(tb) > Len(lastCall.pre) =>
               /\ lastCall.op = "add"
               /\ ~HasRow(lastCall.pre, lastCall.date)
               /\ Len(tb) = Len(lastCall.pre) + 1
          /\ Len(tb) < Len(lastCall.pre) =>
               /\ lastCall.op = "remove"
               /\ Range(RowSlots(lastCall.pre, lastCall.date))
                     \subseteq Span(lastCall.slot)
               /\ Len(tb) = Len(lastCall.pre) - 1
          /\ (lastCall.op = "remove" /\ HasRow(lastCall.pre, lastCall.date)
               /\ Range(RowSlots(lastCall.pre, lastCall.date))
                     \subseteq Span(lastCall.slot))
               => ~HasRow(tb, lastCall.date)

\* a remove emptied a row and the row is gone while another date's row stays
C5_Witness ==
  /\ lastCall.op = "remove"
  /\ HasRow(lastCall.pre, lastCall.date)
  /\ ~HasRow(tables[lastCall.table].tableBookings, lastCall.date)
  /\ Len(tables[lastCall.table].tableBookings) = 1

\* C6: addBooking changes nothing when the date has a row and one of
\* slot, slot+1, slot+2 is already booked; a second addBooking with the
\* same arguments leaves the bookings as the first call left them
C6_AddIsNoOpOnConflict ==
  lastCall.op = "add" =>
    /\ (/\ HasRow(lastCall.pre, lastCall.date)
         /\ Range(RowSlots(lastCall.pre, lastCall.date))
               \cap Span(lastCall.slot) # {})
         => /\ lastCall.doc = lastCall.pre
            /\ tables[lastCall.table].tableBookings = lastCall.pre
    /\ lastCall.afterAdd =>
         /\ tables[lastCall.table].tableBookings = lastCall.pre
         /\ ~lastCall.threw => lastCall.doc = lastCall.pre

\* an add hit a row that holds part of its span, right after the same add
C6_Witness ==
  /\ lastCall.op = "add"
  /\ lastCall.afterAdd
  /\ Range(RowSlots(lastCall.pre, lastCall.date)) = {2, 3, 4, 5, 6, 7}
  /\ lastCall.slot = 5

\* C7 as stated: for every table state, addBooking followed by
\* removeBooking with the same date and slot restores the date's
\* bookedSlots to the value before the add
C7_RoundTripAnyState ==
  (lastCall.op = "remove" /\ lastCall.afterAdd) =>
     RowSlots(tables[lastCall.table].tableBookings, lastCall.date)
       = RowSlots(lastCall.addPre, lastCall.date)

\* C7 amended: when none of slot, slot+1, slot+2 is booked for the date
\* before the add, addBooking followed by removeBooking with the same date
\* and slot restores the table's tableBookings (the date's row is gone again
\* if the add created it)
C7_RoundTripWhenFree ==
  (/\ lastCall.op = "remove" /\ lastCall.afterAdd
   /\ isTableSlotAvailable(lastCall.addPre, lastCall.date, lastCall.slot))
    => /\ tables[lastCall.table].tableBookings = lastCall.addPre
       /\ ~HasRow(lastCall.addPre, lastCall.date)
            => ~HasRow(tables[lastCall.table].tableBookings, lastCall.date)

\* an add on a free span of a date that already had a booking, then its
\* remove
C7_Witness ==
  /\ lastCall.op = "remove" /\ lastCall.afterAdd
  /\ HasRow(lastCall.addPre, lastCall.date)
  /\ isTableSlotAvailable(lastCall.addPre, lastCall.date, lastCall.slot)
  /\ lastCall.pre # lastCall.addPre

\* C8: after addBooking on a date without bookings the row is
\* [slot, slot+1, slot+2] and isSlotAvailable(t) is false exactly for the
\* t in 1..9 whose span meets it; every slot of a date without a row is
\* available
C8_ConflictAfterAdd ==
  /\ (lastCall.op = "add" /\ ~HasRow(lastCall.pre, lastCall.date)) =>
        /\ RowSlots(lastCall.doc, lastCall.date)
              = <<lastCall.slot, lastCall.slot + 1, lastCall.slot + 2>>
        /\ \A t \in 1..9 :
              isTableSlotAvailable(lastCall.doc, lastCall.date, t)
                <=> (Span(t) \cap Span(lastCall.slot) = {})
        /\ ~lastCall.threw =>
              /\ tables[lastCall.table].tableBookings = lastCall.doc
              /\ \A t \in 1..9 :
                    isTableSlotAvailable(tables[lastCall.table].tableBookings,
                                         lastCall.date, t)
                      <=> (t > lastCall.slot + 2 \/ t < lastCall.slot - 2)
  /\ \A n \in TableNums, d \in LedgerDates :
        ~HasRow(tables[n].tableBookings, d) =>
          \A t \in 1..9 : isTableSlotAvailable(tables[n].tableBookings, d, t)

\* slot 5 was booked on a date without bookings: 4..7 are taken, 8 is free
C8_Witness ==
  /\ lastCall.op = "add" /\ lastCall.slot = 5
  /\ ~HasRow(lastCall.pre, lastCall.date)
  /\ ~lastCall.threw
  /\ ~isTableSlotAvailable(tables[lastCall.table].tableBookings,
                            lastCall.date, 4)
  /\ ~isTableSlotAvailable(tables[lastCall.table].tableBookings,
                            lastCall.date, 7)
  /\ isTableSlotAvailable(tables[lastCall.table].tableBookings,
                           lastCall.date, 8)

\* C9: removeBooking removes exactly slot, slot+1 and slot+2 from the row of
\* the date, keeps every other value, deletes the row only when nothing is
\* left, and changes nothing when the date has no row
C9_RemoveExactlySpan ==
  lastCall.op = "remove" =>
    LET tb == tables[lastCall.table].tableBookings
        before == RowSlots(lastCall.pre, lastCall.date)
        after == RowSlots(tb, lastCall.date)
    IN /\ ~HasRow(lastCall.pre, lastCall.date) => tb = lastCall.pre
       /\ Range(after) = Range(before) \ Span(lastCall.slot)
       /\ Len(after) = Cardinality(Range(before) \ Span(lastCall.slot))
       /\ \A i, j \in 1..Len(after) : i < j => after[i] < after[j]
       /\ HasRow(lastCall.pre, lastCall.date) =>
            (HasRow(tb, lastCall.date) <=> Range(after) # {})
       /\ OtherRows(tb, lastCall.date) = OtherRows(lastCall.pre, lastCall.date)

\* a remove took part of a row and left the rest of it
C9_Witness ==
  /\ lastCall.op = "remove"
  /\ Range(RowSlots(lastCall.pre, lastCall.date)) = {1, 2, 3, 5, 6, 7}
  /\ lastCall.slot = 3
  /\ RowSlots(tables[lastCall.table].tableBookings, lastCall.date)
       = <<1, 2, 6, 7>>

(***************************************************************************)
(* Properties of the lead-time policies                                    *)
(***************************************************************************)
\* the instant of a slot on a date, from the catalog's half-hour grid:
\* slot 1 is 18:00 and every further slot is 30 minutes later
SlotInstant(date, slot) ==
  (date \div MsPerDay) * MsPerDay
    + 18 * MsPerHour + (slot - 1) * 30 * MsPerMinute

\* C10: both call sites of the create/modify lead-time policy allow exactly
\* the slots 1..9 whose instant is at least one hour after now, and report
\* the signed difference in hours
C10_LeadTimeOneHour ==
  lastCall.op \in {"canModify", "isValidNew"} =>
    LET allowed == IF lastCall.op = "canModify"
                   THEN lastCall.result.canModify ELSE lastCall.result.isValid
        diff == SlotInstant(lastCall.date, lastCall.slot) - now
    IN /\ allowed <=> (lastCall.slot \in 1..9 /\ diff >= MsPerHour)
       /\ lastCall.slot \in 1..9 => lastCall.result.hoursUntil.num = diff
       /\ lastCall.slot \notin 1..9 => lastCall.result.hoursUntil.num = 0
       /\ lastCall.result.hoursUntil.den = MsPerHour
       /\ (lastCall.slot = 5 /\ lastCall.date = Day1
            /\ now = Day1 + 17 * MsPerHour + 30 * MsPerMinute) =>
            allowed /\ 2 * lastCall.result.hoursUntil.num
                         = 5 * lastCall.result.hoursUntil.den
       /\ (lastCall.slot = 5 /\ lastCall.date = Day1
            /\ now = Day1 + 19 * MsPerHour + 30 * MsPerMinute) =>
            ~allowed /\ 2 * lastCall.result.hoursUntil.num
                          = lastCall.result.hoursUntil.den

\* the policy allowed a slot that starts exactly one hour after now
C10_Witness ==
  /\ lastCall.op = "isValidNew"
  /\ lastCall.slot = 5
  /\ now = Day1 + 19 * MsPerHour
  /\ lastCall.date = Day1 + 13 * MsPerHour
  /\ lastCall.result.isValid
  /\ lastCall.result.hoursUntil.num = lastCall.result.hoursUntil.den

\* C11 as stated: canCancel allows exactly the slots 1..9 whose instant is
\* at least 2 hours after now, and every refusal carries the 'at least 2
\* hours in advance' message
C11_CancelRefusalMessageAsStated ==
  lastCall.op = "canCancel" =>
    LET diff == SlotInstant(lastCall.date, lastCall.slot) - now
    IN /\ lastCall.result.canCancel
            <=> (lastCall.slot \in 1..9 /\ diff >= 2 * MsPerHour)
       /\ ~lastCall.result.canCancel =>
            lastCall.result.message =
              "Reservations can only be cancelled at least 2 hours in advance"

\* C11 amended: canCancel allows exactly the slots 1..9 whose instant is at
\* least 2 hours after now (exactly 2 hours is allowed); a slot in 1..9 that
\* is closer is refused with the 'at least 2 hours in advance' message, and
\* a slot outside 1..9 is refused with 'Invalid reservation slot time'
C11_CancelTwoHours ==
  lastCall.op = "canCancel" =>
    LET diff == SlotInstant(lastCall.date, lastCall.slot) - now
    IN /\ lastCall.result.canCancel
            <=> (lastCall.slot \in 1..9 /\ diff >= 2 * MsPerHour)
       /\ lastCall.result.canCancel => lastCall.result.message = NoMessage
       /\ (~lastCall.result.canCancel /\ lastCall.slot \in 1..9) =>
            lastCall.result.message =
              "Reservations can only be cancelled at least 2 hours in advance"
       /\ lastCall.slot \notin 1..9 =>
            /\ ~lastCall.result.canCancel
            /\ lastCall.result.message = "Invalid reservation slot time"
       /\ (lastCall.slot = 5 /\ lastCall.date = Day1
            /\ now = Day1 + 17 * MsPerHour) => lastCall.result.canCancel
       /\ (lastCall.slot = 5 /\ lastCall.date = Day1
            /\ now = Day1 + 19 * MsPerHour) =>
            /\ ~lastCall.result.canCancel
            /\ lastCall.result.message =
                 "Reservations can only be cancelled at least 2 hours in advance"

\* canCancel allowed a slot that starts exactly two hours after now
C11_Witness ==
  /\ lastCall.op = "canCancel"
  /\ lastCall.slot = 3
  /\ lastCall.date = Day1 + 13 * MsPerHour
  /\ now = Day1 + 17 * MsPerHour
  /\ lastCall.result.canCancel
  /\ lastCall.result.hoursUntil.num = 2 * lastCall.result.hoursUntil.den

\* the lead-time rule of the create/modify policy, from the half-hour grid
LeadTimeOk(date, slot, at) ==
  slot \in 1..9 /\ SlotInstant(date, slot) - at >= MsPerHour

\* C12: validateUpdate is valid exactly when the current (date, slot) is at
\* least 1 hour after now and, when a new date or slot is proposed, the
\* proposed (date, slot) with absent fields taken from the reservation is so
\* too; when the check on the current time fails errors holds that check's
\* message alone, so errors[1] is the first violated rule
C12_ValidateUpdateOrder ==
  lastCall.op = "validateUpdate" =>
    LET curOk == LeadTimeOk(lastCall.date, lastCall.slot, now)
        proposes == lastCall.newDate # NoDate \/ lastCall.newSlot # NoSlot
        pDate == IF lastCall.newDate # NoDate
                 THEN lastCall.newDate ELSE lastCall.date
        pSlot == IF lastCall.newSlot # NoSlot
                 THEN lastCall.newSlot ELSE lastCall.slot
        propOk == LeadTimeOk(pDate, pSlot, now)
        errors == lastCall.result.errors
    IN /\ lastCall.result.isValid <=> (curOk /\ (proposes => propOk))
       /\ lastCall.result.isValid <=> errors = <<>>
       /\ ~curOk =>
            errors = << IF lastCall.slot \in 1..9
                        THEN "Cannot modify reservation less than 1 hour before the original time"
                        ELSE "Invalid original slot time" >>
       /\ (curOk /\ proposes /\ ~propOk) =>
            errors = << IF pSlot \in 1..9
                        THEN "New reservation time must be at least 1 hour from now"
                        ELSE "Invalid new slot time" >>

\* both the current and the proposed time are too close, and only the
\* message about the current time is reported
C12_Witness ==
  /\ lastCall.op = "validateUpdate"
  /\ lastCall.slot = 5 /\ lastCall.date = Day1
  /\ lastCall.newSlot = 2 /\ lastCall.newDate = NoDate
  /\ now = Day1 + 19 * MsPerHour + 30 * MsPerMinute
  /\ lastCall.result.errors =
       <<"Cannot modify reservation less than 1 hour before the original time">>

(***************************************************************************)
(* Properties of the reservation handlers                                  *)
(***************************************************************************)
Holding(r) == r.status \in {"confirmed", "seated"}

\* the table's row of the reservation's date holds the reservation's span
SpanBooked(tbls, n, r) ==
  Span(r.slot) \subseteq Range(RowSlots(tbls[n].tableBookings, r.date))

\* C1: no two confirmed or seated reservations are assigned the same table
\* on the same date with start slots less than 3 apart
C1_NoDoubleBooking ==
  \A i, j \in 1..Len(reservations) :
    (/\ i < j
     /\ Holding(reservations[i]) /\ Holding(reservations[j])
     /\ normalizeDate(reservations[i].date) = normalizeDate(reservations[j].date)
     /\ \E n \in TableNums : /\ n \in Range(reservations[i].tableNumber)
                             /\ n \in Range(reservations[j].tableNumber))
    => \/ reservations[i].slot - reservations[j].slot >= 3
       \/ reservations[j].slot - reservations[i].slot >= 3

\* C2: every confirmed or seated reservation has slot, slot+1 and slot+2
\* booked for its date on every table assigned to it
C2_HoldingReservationIsBooked ==
  \A i \in 1..Len(reservations) :
    Holding(reservations[i]) =>
      \A n \in Range(reservations[i].tableNumber) \cap TableNums :
        SpanBooked(tables, n, reservations[i])

C16_ScanPartitionsOneToTwelve ==
  lastCall.op = "scan" =>
    LET available == lastCall.result.availableTables
        occupied == Range(lastCall.result.occupiedTables)
    IN /\ available \cap occupied = {}
       /\ available \cup occupied = 1..12
       /\ \A n \in 1..22 :
            n \in available <=>
              /\ n \in DOMAIN tables
              /\ tables[n].isActive
              /\ isTableSlotAvailable(tables[n].tableBookings,
                                      lastCall.date, lastCall.slot)
       /\ (/\ DOMAIN tables = 1..12
           /\ \A n \in 1..12 : tables[n].isActive
           /\ \A n \in 1..12 :
                RowSlots(tables[n].tableBookings, lastCall.date)
                  = IF n = 3 THEN <<5, 6, 7>> ELSE <<>>
           /\ lastCall.slot = 5)
          => /\ lastCall.result.occupiedTables = <<3>>
             /\ available = (1..12) \ {3}

\* C17: dailyAvailabilityReport has one entry per active table in ascending
\* tableNumber order; availableSlots is exactly the s in 1..9 with none of
\* s, s+1, s+2 among the table's bookedSlots for the date, so it is disjoint
\* from bookedSlots, and isFullyBooked is true iff
\* availableSlots is empty
C17_DailyReport ==
  lastCall.op = "report" =>
    LET report == lastCall.result
        active == {t \in DOMAIN tables : tables[t].isActive}
    IN /\ Len(report) = Cardinality(active)
       /\ {report[i].tableNumber : i \in 1..Len(report)} = active
       /\ \A i, j \in 1..Len(report) :
            i < j => report[i].tableNumber < report[j].tableNumber
       /\ \A i \in 1..Len(report) :
            LET e == report[i]
                booked == Range(RowSlots(tables[e.tableNumber].tableBookings,
                                         lastCall.date))
            IN /\ Range(e.bookedSlots) = booked
               /\ Range(e.availableSlots) =
                    {s \in 1..9 : Span(s) \cap booked = {}}
               /\ \A k, l \in 1..Len(e.availableSlots) :
                    k < l => e.availableSlots[k] < e.availableSlots[l]
               /\ Range(e.availableSlots) \cap Range(e.bookedSlots) = {}
               /\ e.isFullyBooked <=> e.availableSlots = <<>>
               /\ e.capacity = tables[e.tableNumber].capacity

\* a report over an inactive table 3, a table 12 with no booking and a
\* table 13 fully booked through the spans of slots 2 and 7
C17_Witness ==
  /\ lastCall.op = "report"
  /\ DOMAIN tables = {3, 12, 13, 22}
  /\ ~tables[3].isActive
  /\ Len(lastCall.result) = 3
  /\ lastCall.result[2].tableNumber = 13
  /\ lastCall.result[2].bookedSlots = <<2, 3, 4, 7, 8, 9>>
  /\ lastCall.result[2].isFullyBooked
  /\ ~lastCall.result[1].isFullyBooked

(***************************************************************************)
(* Properties of concurrent bookings                                       *)
(***************************************************************************)
\* every slot recorded for a date, over all the rows of that date
RECURSIVE RecordedSlots(_, _)
RecordedSlots(tableBookings, date) ==
  IF tableBookings = <<>> THEN <<>>
  ELSE (IF normalizeDate(Head(tableBookings).date) = normalizeDate(date)
        THEN Head(tableBookings).bookedSlots ELSE <<>>)
       \o RecordedSlots(Tail(tableBookings), date)

Occurrences(s, x) == Cardinality({k \in 1..Len(s) : s[k] = x})

RecordedTwice(tableBookings, date) ==
  \E x \in Range(RecordedSlots(tableBookings, date)) :
    Occurrences(RecordedSlots(tableBookings, date), x) >= 2

SpanRecorded(tableBookings, date, slot) ==
  Span(slot) \subseteq Range(RecordedSlots(tableBookings, date))

\* two finished requests for one table and one calendar date whose spans
\* overlap, i saving before j
CompetingPair(i, j) ==
  /\ i # j
  /\ requests[i].pc = "done" /\ requests[j].pc = "done"
  /\ requests[i].savedAt < requests[j].savedAt
  /\ requests[i].table = requests[j].table
  /\ normalizeDate(requests[i].date) = normalizeDate(requests[j].date)
  /\ Span(requests[i].slot) \cap Span(requests[j].slot) # {}

\* C19: of two addBooking requests for the same table and date with
\* overlapping spans, the later one finds the span taken when it loads the
\* table after the earlier one saved; when it loads before that save, both
\* find the span free in their copies, both saves are accepted, and the
\* stored ledger ends with a slot recorded twice for the date or with one
\* span written where two were (one request's write is lost)
C19_LostUpdateRace ==
  \A i, j \in DOMAIN requests :
    CompetingPair(i, j) =>
      LET stored == tables[requests[i].table].tableBookings
          date == requests[i].date
          before == Len(RecordedSlots(requests[i].base, date))
      IN IF requests[j].loadedAt > requests[i].savedAt
         THEN requests[i].sawFree =>
                /\ ~requests[j].sawFree
                /\ SpanRecorded(stored, date, requests[i].slot)
                /\ ~RecordedTwice(stored, date)
                /\ Len(RecordedSlots(stored, date)) = before + 3
         ELSE /\ requests[i].sawFree <=> requests[j].sawFree
              /\ requests[i].sawFree =>
                   /\ SpanRecorded(stored, date, requests[j].slot)
                   /\ \/ RecordedTwice(stored, date)
                      \/ Len(RecordedSlots(stored, date)) = before + 3

\* both requests found the span free and both saves went through: slots 2
\* and 3 are recorded twice for the date
C19_Witness ==
  /\ CompetingPair(1, 2)
  /\ requests[2].loadedAt < requests[1].savedAt
  /\ requests[1].sawFree /\ requests[2].sawFree
  /\ requests[1].slot = 1 /\ requests[2].slot = 2
  /\ Occurrences(RecordedSlots(tables[1].tableBookings, requests[1].date), 2)
       = 2
  /\ Occurrences(RecordedSlots(tables[1].tableBookings, requests[1].date), 3)
       = 2

\* the transitions of Reservation.status that the state machine lists
StatusTransitions ==
  { <<"pending", "confirmed">>, <<"confirmed", "seated">>,
    <<"seated", "completed">>, <<"confirmed", "cancelled">>,
    <<"confirmed", "no-show">> }

\* C15: a reservation's status only ever changes along pending -> confirmed,
\* confirmed -> seated, seated -> completed, confirmed -> cancelled and
\* confirmed -> no-show; any other requested change leaves it as it was
C15_StatusFollowsStateMachine ==
  [][\A id \in 1..Len(reservations) :
       reservations'[id].status # reservations[id].status =>
         <<reservations[id].status, reservations'[id].status>>
            \in StatusTransitions]_vars

\* C18: createReservation persists a reservation or changes a table's
\* tableBookings only when the requested (date, slot) is at least 1 hour
\* after now and every listed table reported the span available
C18_CreateChecksBeforeLedger ==
  [][(/\ lastCall'.op = "create"
      /\ left' = left - 1
      /\ (tables' # tables \/ reservations' # reservations))
     => LET r == reservations'[Len(reservations')]
        IN /\ LeadTimeOk(r.date, r.slot, now)
           /\ \A n \in Range(r.tableNumber) \cap TableNums :
                isTableSlotAvailable(tables[n].tableBookings, r.date,
                                     r.slot)]_vars

\* C20: createReservation and cancelUserReservation attempt the ledger
\* update of every table of the list, also after the update of an earlier
\* table failed: the handler's log has one entry per listed table
C20_EveryListedTableAttempted ==
  (lastCall.op \in {"create", "cancel"} /\ lastCall.code \in {200, 201}) =>
    LET list == reservations[lastCall.id].tableNumber
    IN /\ Len(lastCall.log) = 1 + Len(list)
       /\ \A k \in 1..Len(list) :
            /\ lastCall.log[k + 1][1] \in {"add", "remove", "missing", "throw"}
            /\ lastCall.log[k + 1][2] = list[k]

(***************************************************************************)
(* Properties of the user routes, over the audited calls                   *)
(***************************************************************************)
\* the lead-time rule of the cancel policy, from the half-hour grid
CancelLeadOk(date, slot, at) ==
  slot \in 1..9 /\ SlotInstant(date, slot) - at >= 2 * MsPerHour

\* C13: updateUserReservation changes neither the reservations nor any
\* table's tableBookings when the caller is not the owner, the status is not
\* confirmed, the proposed slot is not in 1..9, or the current or the
\* proposed time is less than 1 hour after now
C13_RejectedUpdateChangesNothing ==
  [][(/\ lastCall'.op = "updateUser"
      /\ left' = left - 1
      /\ lastCall'.id \in 1..Len(reservations))
     => LET q == lastCall'.req
            r == reservations[lastCall'.id]
            refused ==
              IF q.user # r.userId \/ r.status # "confirmed"
              THEN TRUE
              ELSE LET proposes == q.date # NoDate \/ q.slot # NoSlot
                       pDate == IF q.date # NoDate THEN q.date ELSE r.date
                       pSlot == IF q.slot # NoSlot THEN q.slot ELSE r.slot
                   IN \/ (q.slot # NoSlot /\ q.slot \notin 1..9)
                      \/ ~LeadTimeOk(r.date, r.slot, now)
                      \/ (proposes /\ ~LeadTimeOk(pDate, pSlot, now))
        IN refused => /\ tables' = tables
                      /\ reservations' = reservations
                      /\ lastCall'.code \in {400, 403}
                      /\ lastCall'.log = <<>>]_vars

\* the owner of a confirmed reservation booked on table 1 asked for a new
\* slot less than one hour before the current one, and was refused
C13_Witness ==
  /\ lastCall.op = "updateUser" /\ lastCall.code = 400
  /\ lastCall.id \in 1..Len(reservations)
  /\ lastCall.req.user = reservations[lastCall.id].userId
  /\ reservations[lastCall.id].status = "confirmed"
  /\ reservations[lastCall.id].slot = 1
  /\ lastCall.req.slot = 4
  /\ ~LeadTimeOk(reservations[lastCall.id].date, 1, now)
  /\ LeadTimeOk(reservations[lastCall.id].date, 4, now)
  /\ SpanBooked(tables, 1, reservations[lastCall.id])

\* C14: cancelUserReservation changes a reservation, and then only its
\* status to cancelled, only if the caller owns it, its status is confirmed
\* and its (date, slot) is at least 2 hours after now; in every other case
\* the call is rejected and the reservations and every table's tableBookings
\* are unchanged
C14_CancelOnlyWhenAllowed ==
  [][(lastCall'.op = "cancel" /\ left' = left - 1)
     => LET id == lastCall'.id
            allowed ==
              IF id \notin 1..Len(reservations) THEN FALSE
              ELSE /\ lastCall'.req.user = reservations[id].userId
                   /\ reservations[id].status = "confirmed"
                   /\ CancelLeadOk(reservations[id].date,
                                   reservations[id].slot, now)
        IN /\ ~allowed => /\ lastCall'.code \in {400, 403, 404}
                          /\ reservations' = reservations
                          /\ tables' = tables
           /\ reservations' # reservations =>
                /\ allowed
                /\ reservations' =
                     [reservations EXCEPT ![id].status = "cancelled"]]_vars

\* the owner of a confirmed reservation booked on table 1 asked to cancel it
\* one hour before its time, and was refused
C14_Witness ==
  /\ lastCall.op = "cancel" /\ lastCall.code = 400
  /\ lastCall.id \in 1..Len(reservations)
  /\ lastCall.req.user = reservations[lastCall.id].userId
  /\ reservations[lastCall.id].status = "confirmed"
  /\ LeadTimeOk(reservations[lastCall.id].date,
                reservations[lastCall.id].slot, now)
  /\ ~CancelLeadOk(reservations[lastCall.id].date,
                   reservations[lastCall.id].slot, now)
  /\ SpanBooked(tables, 1, reservations[lastCall.id])

(***************************************************************************)
(* Frame of the ledger operations                                          *)
(***************************************************************************)
\* C30: addBooking(table, d, s) and removeBooking(table, d, s) leave
\* unchanged every row of that table for a date other than d, the table's
\* tableNumber, capacity and isActive, and every other table
C30_LedgerFrame ==
  [][(left' = left - 1 /\ lastCall'.op \in {"add", "remove"})
     => LET t == lastCall'.table
            d == lastCall'.date
        IN /\ OtherRows(tables'[t].tableBookings, d)
                = OtherRows(tables[t].tableBookings, d)
           /\ tables'[t].tableNumber = tables[t].tableNumber
           /\ tables'[t].capacity = tables[t].capacity
           /\ tables'[t].isActive = tables[t].isActive
           /\ \A o \in TableNums \ {t} : tables'[o] = tables[o]]_vars

\* the only booking of a date was released on table 1 while the table held
\* a row for the other date, which stayed
C30_Witness ==
  /\ lastCall.op = "remove" /\ lastCall.table = 1
  /\ HasRow(lastCall.pre, lastCall.date)
  /\ ~HasRow(tables[1].tableBookings, lastCall.date)
  /\ OtherRows(tables[1].tableBookings, lastCall.date) # <<>>

(***************************************************************************)
(* Order of a row after addTableBooking                                    *)
(***************************************************************************)
\* C25: whenever addBooking appends a span to an already existing date row,
\* the row's bookedSlots is afterwards in ascending numeric order, for every
\* start slot 1..9 and every prior content of the row
C25_AppendKeepsNumericOrder ==
  (/\ lastCall.op = "add"
   /\ HasRow(lastCall.pre, lastCall.date)
   /\ lastCall.doc # lastCall.pre)
  => LET row == RowSlots(lastCall.doc, lastCall.date)
     IN \A i, j \in 1..Len(row) : i < j => row[i] < row[j]

(***************************************************************************)
(* Failures of the ledger update inside createReservation                  *)
(***************************************************************************)
\* C21: if the ledger update fails for some table during createReservation,
\* the reservation written before the loop stays persisted, the bookings
\* already applied to earlier tables stay applied, and the request still
\* completes with the success response
C21_CreateSurvivesLedgerFailure ==
  [][(/\ lastCall'.op = "create"
      /\ left' = left - 1
      /\ \E k \in 1..Len(lastCall'.log) : lastCall'.log[k][1] = "throw")
     => LET log == lastCall'.log
            id == lastCall'.id
            r == reservations'[id]
        IN /\ lastCall'.code = 201
           /\ id = Len(reservations) + 1
           /\ reservations' = Append(reservations, r)
           /\ log[1] = <<"reservation", id>>
           /\ \A k \in 2..Len(log) :
                log[k][1] = "add" =>
                  /\ log[k][2] = r.tableNumber[k - 1]
                  /\ tables'[log[k][2]].tableBookings =
                       addTableBooking(tables[log[k][2]].tableBookings,
                                       r.date, r.slot)]_vars

\* a reservation for tables 1 and 2 was created, the booking of table 1 was
\* applied, the write of table 2 was refused, and the answer was 201
C21_Witness ==
  /\ lastCall.op = "create" /\ lastCall.code = 201
  /\ lastCall.log = << <<"reservation", lastCall.id>>, <<"add", 1>>,
                       <<"throw", 2>> >>
  /\ reservations[lastCall.id].tableNumber = <<1, 2>>
  /\ SpanBooked(tables, 1, reservations[lastCall.id])
  /\ ~SpanBooked(tables, 2, reservations[lastCall.id])

(***************************************************************************)
(* Order of the table writes of updateUserReservation                      *)
(***************************************************************************)
\* the listed tables that have a Table document, in list order
existing(list) == SelectSeq(list, LAMBDA n : n \in TableNums)

\* the tableBookings of a table whose only booking is one span
onlySpan(date, slot) ==
  << [date |-> normalizeDate(date),
      bookedSlots |-> <<slot, slot + 1, slot + 2>>] >>

\* C22: in updateUserReservation with a changed date or slot, on each
\* assigned table the old span is released before the new span is added,
\* and both writes of table k come before any write of table k+1; so a move
\* to a span that overlaps the old one, on a table with no other booking,
\* leaves exactly the new span booked
C22_ReleaseThenAddPerTable ==
  [][(/\ lastCall'.op = "updateUser"
      /\ left' = left - 1
      /\ lastCall'.code = 200
      /\ lastCall'.req.date # NoDate \/ lastCall'.req.slot # NoSlot)
     => LET old == reservations[lastCall'.id]
            new == reservations'[lastCall'.id]
            list == existing(old.tableNumber)
            log == lastCall'.log
        IN /\ Len(log) = 2 * Len(list) + 1
           /\ \A k \in 1..Len(list) :
                /\ log[2 * k - 1] = <<"remove", list[k]>>
                /\ log[2 * k] = <<"add", list[k]>>
                /\ tables[list[k]].tableBookings
                      = onlySpan(old.date, old.slot)
                   => tables'[list[k]].tableBookings
                        = onlySpan(new.date, new.slot)]_vars

\* a reservation on tables 1 and 2 was moved from slot 1 to slot 2 of the
\* same date, and both tables hold slots 2, 3, 4 and nothing else
C22_Witness ==
  /\ lastCall.op = "updateUser" /\ lastCall.code = 200
  /\ lastCall.was.slot = 1 /\ lastCall.req.slot = 2
  /\ lastCall.req.date = NoDate
  /\ lastCall.log = << <<"remove", 1>>, <<"add", 1>>, <<"remove", 2>>,
                       <<"add", 2>>, <<"reservation", lastCall.id>> >>
  /\ \A n \in {1, 2} :
       tables[n].tableBookings = onlySpan(reservations[lastCall.id].date, 2)

(***************************************************************************)
(* Table changes and cancellation through updateAdminReservation           *)
(***************************************************************************)
\* the admin update of an existing reservation that passed the status check
\* and asks for a table list other than the stored one
changesTables(call, original) ==
  /\ call.req.status \in {NoStatus} \cup validStatuses
  /\ call.req.tableNumber # <<>>
  /\ call.req.tableNumber[1] # original.tableNumber

\* C23: when updateAdminReservation is given a table list that differs from
\* the stored one for a non-cancelled reservation, all tables of both lists
\* exist and no other reservation holds slots on them, then after the call
\* every table of the new list has the reservation's span booked on its
\* date, every table only in the old list no longer has it, every release
\* came before any add, and the stored tableNumber is the new list
C23_AdminTableChange ==
  [][(/\ lastCall'.op = "updateAdmin"
      /\ left' = left - 1
      /\ lastCall'.id \in 1..Len(reservations)
      /\ changesTables(lastCall', reservations[lastCall'.id])
      /\ reservations[lastCall'.id].status # "cancelled"
      /\ LET old == reservations[lastCall'.id]
             new == lastCall'.req.tableNumber[1]
         IN /\ Range(old.tableNumber) \cup Range(new) \subseteq TableNums
            /\ \A n \in Range(old.tableNumber) :
                 tables[n].tableBookings = onlySpan(old.date, old.slot)
            /\ \A n \in Range(new) \ Range(old.tableNumber) :
                 tables[n].tableBookings = <<>>)
     => LET old == reservations[lastCall'.id]
            new == lastCall'.req.tableNumber[1]
            log == lastCall'.log
        IN /\ \A n \in Range(new) : SpanBooked(tables', n, old)
           /\ \A n \in Range(old.tableNumber) \ Range(new) :
                Range(RowSlots(tables'[n].tableBookings, old.date))
                   \cap Span(old.slot) = {}
           /\ \A i, j \in 1..Len(log) :
                (log[i][1] = "add" /\ log[j][1] = "remove") => j < i
           /\ reservations'[lastCall'.id].tableNumber = new]_vars

\* C24: when updateAdminReservation moves a non-cancelled reservation to
\* cancelled, no table of the reservation's resulting tableNumber list still
\* holds the reservation's span on its date, also when the same call changes
\* the table list
C24_AdminCancelReleasesResultingTables ==
  [][(/\ lastCall'.op = "updateAdmin"
      /\ left' = left - 1
      /\ lastCall'.code = 200
      /\ reservations[lastCall'.id].status # "cancelled"
      /\ reservations'[lastCall'.id].status = "cancelled")
     => \A n \in Range(reservations'[lastCall'.id].tableNumber)
                   \cap TableNums :
          ~SpanBooked(tables', n, reservations'[lastCall'.id])]_vars

(***************************************************************************)
(* The ledger against the reservations                                     *)
(***************************************************************************)
\* the reservations that are not cancelled and are assigned table n on the
\* date of a row
holders(n, date) ==
  {i \in 1..Len(reservations) :
     /\ reservations[i].status # "cancelled"
     /\ n \in Range(reservations[i].tableNumber)
     /\ normalizeDate(reservations[i].date) = normalizeDate(date)}

\* C26: after any sequence of createReservation, updateUserReservation,
\* updateAdminReservation and cancelUserReservation calls, every bookedSlots
\* is a disjoint union of 3-slot spans {s, s+1, s+2}, each the span of a
\* non-cancelled reservation assigned to that table on that date, and no
\* slot value occurs twice
C26_LedgerMatchesReservations ==
  \A n \in TableNums :
    \A b \in 1..Len(tables[n].tableBookings) :
      LET row == tables[n].tableBookings[b]
      IN /\ Len(row.bookedSlots) = Cardinality(Range(row.bookedSlots))
         /\ \E S \in SUBSET holders(n, row.date) :
              /\ \A i, j \in S :
                   i # j => Span(reservations[i].slot)
                              \cap Span(reservations[j].slot) = {}
              /\ Range(row.bookedSlots)
                   = UNION {Span(reservations[i].slot) : i \in S}

\* C27: a reservation's table bookings are released at most once: once a
\* reservation is cancelled, no later cancelUserReservation,
\* updateUserReservation or updateAdminReservation call on it invokes
\* removeBooking
C27_NoReleaseAfterCancel ==
  [][(/\ lastCall'.op \in {"cancel", "updateUser", "updateAdmin"}
      /\ left' = left - 1
      /\ lastCall'.id \in 1..Len(reservations)
      /\ reservations[lastCall'.id].status = "cancelled")
     => \A k \in 1..Len(lastCall'.log) :
          lastCall'.log[k][1] # "remove"]_vars

(***************************************************************************)
(* Error answers of the update routes                                      *)
(***************************************************************************)
\* C28: when updateUserReservation or updateAdminReservation answers with
\* an error (invalid status, reservation not found, a new table not found,
\* a failure while updating table bookings), the call has changed no
\* table's tableBookings and has not changed the reservation
C28_ErrorAnswerChangesNothing ==
  [][(/\ lastCall'.op \in {"updateUser", "updateAdmin"}
      /\ left' = left - 1
      /\ lastCall'.code \in {400, 404, 500})
     => /\ \A n \in TableNums :
             tables'[n].tableBookings = tables[n].tableBookings
        /\ reservations' = reservations]_vars

(***************************************************************************)
(* The ledger after a successful updateUserReservation                     *)
(***************************************************************************)
\* C29: after a successful updateUserReservation that changes the date or
\* the slot of a reservation with assigned tables, the stored reservation
\* differs from the loaded one in date and slot only, and every assigned
\* table has the whole new span {slot', slot'+1, slot'+2} in its bookedSlots
\* for the new date
C29_UpdatedReservationIsBooked ==
  [][(/\ lastCall'.op = "updateUser"
      /\ left' = left - 1
      /\ lastCall'.code = 200
      /\ Len(reservations[lastCall'.id].tableNumber) > 0
      /\ \/ reservations'[lastCall'.id].date # reservations[lastCall'.id].date
         \/ reservations'[lastCall'.id].slot # reservations[lastCall'.id].slot)
     => LET id == lastCall'.id
            new == reservations'[id]
        IN /\ reservations' = [reservations EXCEPT ![id].date = new.date,
                                                   ![id].slot = new.slot]
           /\ \A n \in Range(new.tableNumber) \cap TableNums :
                SpanBooked(tables', n, new)]_vars

====
